---- MODULE Spec2Model ----
(***************************************************************************)
(* A model of the receipt pipeline of finances_pipeline.py and of the      *)
(* field extractors under scripts/.                                        *)
(*                                                                         *)
(*   Spec         the ledger reconciler: _upsert on the workbook           *)
(*                Finances.xlsx, for any filename and update record.       *)
(*   SpecLedger   _upsert on a workbook that holds hand-made entries.      *)
(*   SpecMain     the batch loop of main(): per image, the extractor       *)
(*                results are mapped to a payload and upserted.            *)
(*   SpecMainFair SpecMain with the loop taking its next step.             *)
(*   SpecIsolation  one image of main(), any modules and any answers.      *)
(*   SpecAmount   extract_amount of scripts/image-scipts/                  *)
(*                amount_extractor.py, the module main() loads.            *)
(*   SpecDate     _parse_date_time_from_line of date_extractor.py.         *)
(*   SpecLabel    find_amount_near_amount_label of scripts/image-scripts/  *)
(*                amount_extractor.py.                                     *)
(*   SpecDescription  extract of description_extractor.py.                 *)
(*   SpecTiers    the extractor of SpecAmount on competing amounts.        *)
(*   SpecFallback, SpecClamp  extract of date_extractor.py: the reference  *)
(*                fallback and the clamp of the time.                      *)
(*   SpecNote     extract of note_extractor.py.                            *)
(*   SpecKeys     main() on amount results keyed either way.               *)
(*   SpecDelivery main() fed by scripts/image-scripts/amount_extractor.py. *)
(*                                                                         *)
(* Text is a sequence of one-character strings.  A ledger cell is a record *)
(* [t, s, n]: blank (an empty Excel cell, read back as NaN; "" and None in *)
(* a payload), a string, or a number.  Numbers in cells are counted in     *)
(* thousandths, and stand for the double nearest to n/1000.                *)
(***************************************************************************)
EXTENDS Integers, Sequences, FiniteSets, TLC

VARIABLES
    xlsx,      \* OUT_XLSX: [exists, columns, rows], the persisted workbook
    last,      \* history: the last operation applied to the workbook
    imgPaths,  \* main(): img_paths, the images found when the batch starts
    pos,       \* main(): how many images of img_paths the loop has processed
    inText,    \* extractor input: full_text
    inLines,   \* extractor input: lines
    outVal,    \* extractor output
    stage,     \* extractor run: "input" before the call, "done" after it
    ext        \* main(): ext_date, ext_amount, ext_desc, ext_note

vars == <<xlsx, last, imgPaths, pos, inText, inLines, outVal, stage, ext>>

Range(s) == {s[i] : i \in DOMAIN s}

Min(S) == CHOOSE x \in S : \A y \in S : x <= y

(***************************************************************************)
(* Cells                                                                   *)
(***************************************************************************)
Blank == [t |-> "blank", s |-> "", n |-> 0]

Str(x) == IF x = "" THEN Blank ELSE [t |-> "str", s |-> x, n |-> 0]

Num(k) == [t |-> "num", s |-> "", n |-> k]

\* v not in ("", None)
NonBlank(v) == v.t # "blank"

(***************************************************************************)
(* Floating point: round(x, 2) of Python and Series.round(2) of numpy, on  *)
(* the double nearest to n/1000.                                           *)
(***************************************************************************)
RECURSIVE Pow2Mod(_, _)
Pow2Mod(k, m) ==
    IF k = 0 THEN 1 % m
    ELSE IF k % 2 = 1 THEN (2 * Pow2Mod(k - 1, m)) % m
    ELSE (Pow2Mod(k \div 2, m) * Pow2Mod(k \div 2, m)) % m

\* floor(log2(n / d)) for n, d > 0
RECURSIVE Log2Up(_, _, _)
Log2Up(n, d, e) == IF 2 * d <= n THEN Log2Up(n, 2 * d, e + 1) ELSE e

RECURSIVE Log2Down(_, _, _)
Log2Down(n, d, e) == IF n < d THEN Log2Down(2 * n, d, e - 1) ELSE e

FloorLog2(n, d) == IF n >= d THEN Log2Up(n, d, 0) ELSE Log2Down(n, d, 0)

\* The fraction, in thousandths of a unit in the last place, that the 53-bit
\* significand of n/1000 cuts off.
UlpRemainder(n) ==
    LET k == 52 - FloorLog2(n, 1000)
    IN  ((n % 1000) * Pow2Mod(k, 1000)) % 1000

\* The sign of double(n/1000) - n/1000.
FloatError(n) ==
    IF n = 0 THEN 0
    ELSE LET r == UlpRemainder(n)
         IN  IF r = 0 THEN 0 ELSE IF r < 500 THEN -1 ELSE 1

HalfEven(q) == IF q % 2 = 0 THEN q ELSE q + 1

\* Decimal's ROUND_HALF_UP to 2 places, in thousandths.
RoundHalfUp(n) == ((n + 5) \div 10) * 10

\* round(x, 2) of Python: the exact binary value of x is rounded to the
\* nearest hundredth, an exact tie going to the even hundredth.
PyRound2(n) ==
    LET q == n \div 10
        d == n % 10
        e == FloatError(n)
    IN  IF d < 5 THEN 10 * q
        ELSE IF d > 5 THEN 10 * (q + 1)
        ELSE IF e = 0 THEN 10 * HalfEven(q)
        ELSE IF e < 0 THEN 10 * q
        ELSE 10 * (q + 1)

\* numpy's round(x, 2): rint(x * 100) / 100.  The product x * 100 is itself
\* rounded to a double: it lands on the tie q + 1/2 when the error of x,
\* scaled by 100, is at most half a unit in the last place of the product.
NpRound2(n) ==
    LET q == n \div 10
        d == n % 10
        r == UlpRemainder(n)
        w == IF FloorLog2(n, 10) - FloorLog2(n, 1000) = 6 THEN 640 ELSE 1280
        off == IF r < 500 THEN r ELSE 1000 - r
    IN  IF d < 5 THEN 10 * q
        ELSE IF d > 5 THEN 10 * (q + 1)
        ELSE IF 2 * off <= w THEN 10 * HalfEven(q)
        ELSE IF r < 500 THEN 10 * q
        ELSE 10 * (q + 1)

(***************************************************************************)
(* The workbook                                                            *)
(***************************************************************************)
HEADERS ==
    << "Date", "Time", "THB Withdrawal", "THB Deposit", "USD Amount", "FX rate",
       "Description", "Acct #", "Merchant_ID", "Note", "Sub_Category", "Category",
       "Filename", "Source", "Open File" >>

HeaderSet == Range(HEADERS)

NumericCols == {"THB Withdrawal", "THB Deposit", "USD Amount", "FX rate"}

NoFile == [exists |-> FALSE, columns |-> << >>, rows |-> << >>]

\* df[HEADERS] after the missing headers were added as "" columns
EnsureHeaders(df) ==
    [columns |-> HEADERS,
     rows |-> [i \in DOMAIN df.rows |->
                 [h \in HeaderSet |->
                    IF h \in Range(df.columns) THEN df.rows[i][h] ELSE Blank]]]

\* Mutant: the workbook is never read back, every upsert starts a new frame.
ReadOrNewAlwaysNew(x) == EnsureHeaders([columns |-> HEADERS, rows |-> << >>])

ReadOrNew(x) ==
    IF x.exists
    THEN EnsureHeaders([columns |-> x.columns, rows |-> x.rows])
    ELSE EnsureHeaders([columns |-> HEADERS, rows |-> << >>])

\* pd.to_numeric(errors="coerce").round(2) of one cell; the text cells of the
\* model are not numerals, so they coerce to NaN.
ToNumeric(v) == IF v.t = "num" THEN Num(NpRound2(v.n)) ELSE Blank

\* Mutant: the frame is saved as merged, without the numeric coercion.
FinalizeNumbersSkipped(df) == df

FinalizeNumbers(df) ==
    [columns |-> df.columns,
     rows |-> [i \in DOMAIN df.rows |->
                 [c \in Range(df.columns) |->
                    IF c \in NumericCols THEN ToNumeric(df.rows[i][c])
                    ELSE df.rows[i][c]]]]

\* The workbook written: every row with a filename gets the text "Open" (and a
\* hyperlink) in its "Open File" cell.
SaveWithExcelFormat(df) ==
    [exists |-> TRUE,
     columns |-> df.columns,
     rows |-> [i \in DOMAIN df.rows |->
                 [c \in Range(df.columns) |->
                    IF /\ c = "Open File"
                       /\ "Filename" \in Range(df.columns)
                       /\ NonBlank(df.rows[i]["Filename"])
                    THEN Str("Open")
                    ELSE df.rows[i][c]]]]

\* The order in which a payload dict lists its keys.
KeyOrder == << "Date", "Time", "THB Withdrawal", "Description", "Note", "Payee" >>

\* The payload keys that carry a value and name no column of df: df.at and
\* pd.concat add each as a new last column.
AddedColumns(df, payload) ==
    SelectSeq(KeyOrder, LAMBDA k : /\ k \in DOMAIN payload
                                   /\ NonBlank(payload[k])
                                   /\ k \notin Range(df.columns))

\* Mutant: the branch test never finds the row (an insert, not an upsert).
HasRowNever(df, filename) == FALSE

\* Mutant: the row is looked up in the "Open File" column, which the save
\* overwrites with the link text.
HasRowByOpenFile(df, filename) ==
    \E i \in DOMAIN df.rows : df.rows[i]["Open File"] = Str(filename)

\* (df["Filename"] == filename_only).any()
HasRow(df, filename) ==
    \E i \in DOMAIN df.rows : df.rows[i]["Filename"] = Str(filename)

\* Mutant: the payload is merged into the first row of the frame, whatever
\* its filename.
RowIndexFirstRow(df, filename) == 1

\* df.index[df["Filename"] == filename_only][0]
RowIndex(df, filename) ==
    Min({i \in DOMAIN df.rows : df.rows[i]["Filename"] = Str(filename)})

\* Mutant: policy A, the new value always replaces the cell.
MergeCellLastWriteWins(old, new) == new

\* Mutant: a value is written only into an empty cell.
MergeCellKeepFirst(old, new) == IF NonBlank(old) THEN old ELSE new

\* if v not in ("", None): df.at[idx, k] = v
MergeCell(old, new) == IF NonBlank(new) THEN new ELSE old

CellIn(row, c) == IF c \in DOMAIN row THEN row[c] ELSE Blank

\* Mutant: the defaults of the new row are applied after the payload.
FillCellDefaultsLast(old, new) == IF NonBlank(old) THEN old ELSE new

\* if v not in ("", None): row[k] = v
FillCell(old, new) == IF NonBlank(new) THEN new ELSE old

NewRow(filename) ==
    [h \in HeaderSet |->
        CASE h = "Filename" -> Str(filename)
          [] h = "Open File" -> Str(filename)
          [] h = "Source" -> Str("Bangkok Bank Receipt")
          [] OTHER -> Blank]

\* The two branches of _upsert, on the frame just read: the payload is merged
\* into the first row of the filename, or into a new last row.
UpsertFrame(df, filename, payload) ==
    LET cols == df.columns \o AddedColumns(df, payload)
        widen(row) == [c \in Range(cols) |-> CellIn(row, c)]
        merge(row) ==
            [c \in Range(cols) |->
                IF c \in DOMAIN payload
                THEN MergeCell(CellIn(row, c), payload[c])
                ELSE CellIn(row, c)]
        fill(row) ==
            [c \in Range(cols) |->
                IF c \in DOMAIN payload
                THEN FillCell(CellIn(row, c), payload[c])
                ELSE CellIn(row, c)]
    IN  IF HasRow(df, filename)
        THEN [columns |-> cols,
              rows |-> [i \in DOMAIN df.rows |->
                          IF i = RowIndex(df, filename)
                          THEN merge(df.rows[i])
                          ELSE widen(df.rows[i])]]
        ELSE [columns |-> cols,
              rows |-> [i \in DOMAIN df.rows |-> widen(df.rows[i])]
                          \o << fill(NewRow(filename)) >>]

\* _upsert: read, merge, finalize, save.
UpsertResult(x, filename, payload) ==
    SaveWithExcelFormat(FinalizeNumbers(UpsertFrame(ReadOrNew(x), filename, payload)))

(***************************************************************************)
(* Inputs of the reconciler                                                *)
(***************************************************************************)
NumFiles == 2

AllFilenames == << "a.png", "b.png", "c.png", "d.png" >>

Filenames == {AllFilenames[i] : i \in 1..NumFiles}

\* The payload main() builds: always these five keys.
MainPayload(d, t, a, desc, note) ==
    [k \in {"Date", "Time", "THB Withdrawal", "Description", "Note"} |->
        CASE k = "Date" -> d
          [] k = "Time" -> t
          [] k = "THB Withdrawal" -> a
          [] k = "Description" -> desc
          [] k = "Note" -> note]

NoPayload == MainPayload(Blank, Blank, Blank, Blank, Blank)

\* An update record with a field that names no column of the schema.
WithPayee(payload, v) ==
    [k \in DOMAIN payload \cup {"Payee"} |->
        IF k = "Payee" THEN v ELSE payload[k]]

MainPayloads ==
    { NoPayload,
      MainPayload(Str("01/07/2025"), Str("14:24"), Num(759000),
                  Str("MR JOHN HARRIS"), Str("lunch")),
      MainPayload(Str("02/23/2025"), Blank, Num(2500000), Blank, Blank) }

ForeignPayloads ==
    { WithPayee(NoPayload, Str("7-ELEVEN")) }

Payloads == MainPayloads \cup ForeignPayloads

\* A workbook made before this program: other headers, in another order.
LegacyBook ==
    [exists |-> TRUE,
     columns |-> << "Image", "Date", "Withdrawal THB", "Descrition" >>,
     rows |-> << [c \in {"Image", "Date", "Withdrawal THB", "Descrition"} |->
                     CASE c = "Image" -> Str("old.png")
                       [] c = "Date" -> Str("12/31/2024")
                       [] c = "Withdrawal THB" -> Num(120000)
                       [] c = "Descrition" -> Str("RENT")] >>]

BlankRow == [h \in HeaderSet |-> Blank]

\* _dynamic_import(py_path): None, or the module with the names it defines
NoModule == [loaded |-> FALSE, names |-> {}]

Module(names) == [loaded |-> TRUE, names |-> names]

NoModules == [date |-> NoModule, amount |-> NoModule, desc |-> NoModule, note |-> NoModule]

\* What a call of an extractor does: it raises, it returns something that is
\* no dict, or it returns a dict; a and b are the values under its keys
\* (date and time; thb_withdrawal and withdrawal; description; note), Blank
\* for a key that is missing or holds "" or None.
Raises == [kind |-> "raise", a |-> Blank, b |-> Blank]

NotADict == [kind |-> "other", a |-> Blank, b |-> Blank]

Dict(a, b) == [kind |-> "dict", a |-> a, b |-> b]

NotCalled == [kind |-> "none", a |-> Blank, b |-> Blank]

NoResponses == [date |-> NotCalled, amount |-> NotCalled, desc |-> NotCalled, note |-> NotCalled]

\* The history of the workbook: the last operation, its inputs, the branch of
\* _upsert it took, the row of its key as it was loaded (before), and whether
\* the operation before it had the same key (rerun) and payload (again).
NoOp ==
    [op |-> "init", key |-> "", payload |-> NoPayload, branch |-> "none",
     before |-> BlankRow, rerun |-> FALSE, again |-> FALSE, supplied |-> Blank,
     resp |-> NoResponses]

(***************************************************************************)
(* Spec: the reconciler                                                    *)
(***************************************************************************)
Idle ==
    /\ imgPaths = << >>
    /\ pos = 0
    /\ ext = NoModules
    /\ inText = << >>
    /\ inLines = << >>
    /\ outVal = Blank
    /\ stage = "idle"

Init ==
    /\ xlsx \in {NoFile, LegacyBook}
    /\ last = NoOp
    /\ Idle

Branch(x, filename) ==
    IF HasRow(ReadOrNew(x), filename) THEN "existing" ELSE "new"

RowBefore(x, filename) ==
    LET df == ReadOrNew(x)
    IN  IF HasRow(df, filename) THEN df.rows[RowIndex(df, filename)] ELSE BlankRow

Upsert(filename, payload) ==
    /\ xlsx' = UpsertResult(xlsx, filename, payload)
    /\ last' = [op |-> "upsert", key |-> filename, payload |-> payload,
                branch |-> Branch(xlsx, filename),
                before |-> RowBefore(xlsx, filename),
                rerun |-> last.op = "upsert" /\ last.key = filename,
                again |-> /\ last.op = "upsert"
                          /\ last.key = filename
                          /\ last.payload = payload,
                supplied |-> Blank, resp |-> NoResponses]
    /\ UNCHANGED <<imgPaths, pos, inText, inLines, outVal, stage, ext>>

Next == \E filename \in Filenames, payload \in Payloads : Upsert(filename, payload)

Spec == Init /\ [][Next]_vars

(***************************************************************************)
(* Properties of the reconciler                                            *)
(***************************************************************************)
\* The rows of workbook x keyed by filename f.
RowsOf(x, f) ==
    {i \in DOMAIN x.rows :
        "Filename" \in Range(x.columns) /\ x.rows[i]["Filename"] = Str(f)}

CellOf(x, f, c) == x.rows[Min(RowsOf(x, f))][c]

NoDuplicateFilenames(x) ==
    \A i, j \in DOMAIN x.rows :
        ("Filename" \in Range(x.columns)
            /\ NonBlank(x.rows[i]["Filename"])
            /\ x.rows[i]["Filename"] = x.rows[j]["Filename"]) => i = j

\* What a payload value reads as once it is stored in column c.
Stored(c, v) == IF c \in NumericCols THEN ToNumeric(v) ELSE v

\* C1: every upsert leaves exactly one row for its filename and no filename
\* twice: an upsert for a filename that has a row appends nothing, an upsert
\* for a filename without a row appends exactly one row.
C1_OneRowPerFilename ==
    [][last'.op = "upsert" =>
         /\ Cardinality(RowsOf(xlsx', last'.key)) = 1
         /\ Len(xlsx'.rows) =
                Len(xlsx.rows) + (IF RowsOf(xlsx, last'.key) = {} THEN 1 ELSE 0)
         /\ NoDuplicateFilenames(xlsx')]_vars

\* An upsert found its filename in a workbook that holds a row for every
\* filename, and the workbook still holds one row for each.
C1_Witness ==
    /\ last.op = "upsert"
    /\ last.branch = "existing"
    /\ Len(xlsx.rows) >= NumFiles
    /\ \A f \in Filenames : Cardinality(RowsOf(xlsx, f)) = 1

\* C2 (as claimed): whatever the update record, the columns written by an
\* upsert are the columns of the schema that was loaded, in the same order.
C2_ColumnsUnchanged ==
    [][last'.op = "upsert" => xlsx'.columns = ReadOrNew(xlsx).columns]_vars

\* C3 (as claimed): an upsert on an existing workbook, with an update record
\* of schema fields only, writes back the columns the workbook had, in the
\* order it had them.
C3_ExistingColumnsKept ==
    [][(last'.op = "upsert" /\ xlsx.exists /\ DOMAIN last'.payload \subseteq HeaderSet)
          => xlsx'.columns = xlsx.columns]_vars

\* C4: an upsert that repeats the upsert before it (same filename, same
\* update record) leaves the whole workbook as the first one wrote it.
C4_UpsertIdempotent ==
    [][(last.op = "upsert" /\ last'.op = "upsert"
          /\ last'.key = last.key /\ last'.payload = last.payload)
          => xlsx' = xlsx]_vars

\* The same upsert ran twice in a row, the second time on the row the first
\* one had written with some value of the update record in it.
C4_Witness ==
    /\ last.op = "upsert"
    /\ last.again
    /\ last.branch = "existing"
    /\ \E k \in DOMAIN last.payload : NonBlank(last.payload[k])

\* C5: after an upsert on an existing row, every schema cell whose payload
\* value is "" or None holds the value it held before the upsert.
C5_BlankNeverErases ==
    (last.op = "upsert" /\ last.branch = "existing") =>
        \A k \in DOMAIN last.payload \cap HeaderSet :
            ~NonBlank(last.payload[k]) =>
                CellOf(xlsx, last.key, k) = last.before[k]

\* An upsert on an existing row carried a blank for a cell that held a value,
\* and the value is still there.
C5_Witness ==
    /\ last.op = "upsert"
    /\ last.branch = "existing"
    /\ \E k \in DOMAIN last.payload \cap HeaderSet :
          /\ ~NonBlank(last.payload[k])
          /\ NonBlank(last.before[k])
          /\ CellOf(xlsx, last.key, k) = last.before[k]

\* C6 (as claimed): when a filename is upserted twice in a row, a cell the
\* first run filled keeps the first run's value even where the second run
\* extracted a value of its own.
C6_SecondRunIgnored ==
    (last.op = "upsert" /\ last.rerun) =>
        \A k \in DOMAIN last.payload \cap HeaderSet :
            (NonBlank(last.payload[k]) /\ NonBlank(last.before[k])) =>
                CellOf(xlsx, last.key, k) = last.before[k]

\* C6 (amended): when a filename is upserted twice in a row, every non-empty
\* field of the second run replaces the cell, also where the first run had
\* stored a value; the first run's value remains only in the cells for which
\* the second run's field is empty.
C6_SecondRunOverwrites ==
    (last.op = "upsert" /\ last.rerun) =>
        \A k \in DOMAIN last.payload \cap HeaderSet :
            CellOf(xlsx, last.key, k) =
                IF NonBlank(last.payload[k])
                THEN Stored(k, last.payload[k])
                ELSE last.before[k]

\* The second run of a filename brought another value for a cell the first run
\* had filled, and a blank for another such cell.
C6_Witness ==
    /\ last.op = "upsert"
    /\ last.rerun
    /\ \E k \in DOMAIN last.payload \cap HeaderSet :
          /\ NonBlank(last.payload[k])
          /\ NonBlank(last.before[k])
          /\ last.before[k] # Stored(k, last.payload[k])
          /\ CellOf(xlsx, last.key, k) = Stored(k, last.payload[k])
    /\ \E k \in DOMAIN last.payload \cap HeaderSet :
          /\ ~NonBlank(last.payload[k])
          /\ NonBlank(last.before[k])
          /\ CellOf(xlsx, last.key, k) = last.before[k]

(***************************************************************************)
(* SpecMain: the batch loop of main()                                      *)
(***************************************************************************)
\* ext_x and hasattr(ext_x, name)
Callable(mod, name) == mod.loaded /\ name \in mod.names

\* What the module of a family answers when it is called: nothing without a module.
Offered(mod, r) == IF mod.loaded THEN r ELSE NotCalled

\* The call main() makes, if it makes it.
Invoked(mod, name, r) == IF Callable(mod, name) THEN r ELSE NotCalled

\* (v or "").strip() raises AttributeError for a number other than 0
StripFails(v) == v.t = "num" /\ v.n # 0

\* (v or "").strip() for the strings of the model
StripStr(v) ==
    IF v.t = "num" THEN Blank
    ELSE IF v = Str(" lunch ") THEN Str("lunch")
    ELSE v

\* date_val, time_val after lines 279-288
DateFields(r) ==
    IF r.kind # "dict" \/ StripFails(r.a) THEN << Blank, Blank >>
    ELSE IF StripFails(r.b) THEN << StripStr(r.a), Blank >>
    ELSE << StripStr(r.a), StripStr(r.b) >>

\* float(val) of a string of the model, in thousandths; -1 for ValueError
FloatOfStr(str) == IF str = "759.00" THEN 759000 ELSE -1

\* thb_withdrawal = round(float(val), 2), or None when val is "" or None or
\* float(val) raises
ThbWithdrawal(val) ==
    IF ~NonBlank(val) THEN Blank
    ELSE IF val.t = "num" THEN Num(PyRound2(val.n))
    ELSE IF FloatOfStr(val.s) >= 0 THEN Num(PyRound2(FloatOfStr(val.s)))
    ELSE Blank

\* thb_withdrawal after lines 291-301
AmountField(r) == IF r.kind # "dict" THEN Blank ELSE ThbWithdrawal(r.a)

\* description, note after lines 304-318
TextField(r) == IF r.kind # "dict" \/ StripFails(r.a) THEN Blank ELSE StripStr(r.a)

\* description.strip().lower() in {"verify", "veri"}
FalseHit(desc) == desc.s \in {"verify", "veri", "Verify", "Veri", "VERIFY", "VERI"}

\* The four guarded calls of the loop body, lines 279-318
Called(mods, resp) ==
    [date |-> Invoked(mods.date, "extract_date_time", resp.date),
     amount |-> Invoked(mods.amount, "extract", resp.amount),
     desc |-> Invoked(mods.desc, "extract", resp.desc),
     note |-> Invoked(mods.note, "extract", resp.note)]

\* Mutant: the calls are not guarded, an exception an extractor raises ends
\* main().
EscapesUnguarded(r) == \E f \in DOMAIN r : r[f].kind = "raise"

\* An exception of a call that leaves the loop body: none, each call stands
\* in its own try ... except Exception.
Escapes(r) == FALSE

\* The payload of one image, from what the calls returned.
PayloadOf(r) ==
    MainPayload(DateFields(r.date)[1], DateFields(r.date)[2], AmountField(r.amount),
                IF FalseHit(TextField(r.desc)) THEN Blank ELSE TextField(r.desc),
                TextField(r.note))

\* A workbook left by an earlier run, with a row for the first image.
PriorBook ==
    UpsertResult(NoFile, AllFilenames[1],
                 MainPayload(Str("02/23/2025"), Str("17:50"), Num(2500000),
                             Str("K PLUS SHOP"), Str("rent")))

\* _ocr_image(img): ("", []) when the image cannot be read, else the transcript
OcrFailed == << << >>, << >> >>

OcrRead ==
    << << "T", "o", "\n", "M", "R", " ", "X" >>, << << "T", "o" >>, << "M", "R", " ", "X" >> >> >>

OcrResults == { OcrFailed, OcrRead }

\* The modules at the four EXTRACTOR_*_PATHs: as the repository ships them
\* (only amount_extractor.py stands in scripts/image-scipts), and with the
\* names main() calls.
Deployed == [NoModules EXCEPT !.amount = Module({"extract"})]

Plugged ==
    [date |-> Module({"extract_date_time"}), amount |-> Module({"extract"}),
     desc |-> Module({"extract"}), note |-> Module({"extract"})]

\* What the four extractors hand back for one image.
DateTimeResults == { Raises, Dict(Str("01/07/2025"), Str("14:24")) }

\* out_amt["thb_withdrawal"]: a float, in thousandths.
AmountResults == {Raises} \cup {Dict(Num(n), Blank) : n \in {125, 759000}}

DescriptionResults == { Dict(Str("MR JOHN HARRIS"), Blank), Dict(Str("Verify"), Blank) }

NoteResults == { Dict(Str("lunch"), Blank) }

InitMain ==
    /\ xlsx \in {NoFile, PriorBook}
    /\ last = NoOp
    /\ imgPaths \in {SubSeq(AllFilenames, 1, n) : n \in 0..NumFiles}
    /\ pos = 0
    /\ inText = << >>
    /\ inLines = << >>
    /\ outVal = Blank
    /\ stage = "loop"
    /\ ext \in {Deployed, Plugged}

\* One pass of the loop body: the image pos + 1 is read, the extractors are
\* called, their results are mapped to the payload, and the payload is
\* upserted under the bare filename.
ProcessImage(ocr, rd, ra, rx, rn) ==
    /\ stage = "loop"
    /\ pos < Len(imgPaths)
    /\ LET filename == imgPaths[pos + 1]
           resp == [date |-> Offered(ext.date, rd), amount |-> Offered(ext.amount, ra),
                    desc |-> Offered(ext.desc, rx), note |-> Offered(ext.note, rn)]
           payload == PayloadOf(Called(ext, resp))
       IN  IF Escapes(Called(ext, resp))
           THEN /\ stage' = "traceback"
                /\ UNCHANGED <<xlsx, last, pos>>
           ELSE /\ xlsx' = UpsertResult(xlsx, filename, payload)
                /\ last' = [op |-> "process", key |-> filename, payload |-> payload,
                            branch |-> Branch(xlsx, filename),
                            before |-> RowBefore(xlsx, filename),
                            rerun |-> FALSE, again |-> FALSE,
                            supplied |-> Called(ext, resp).amount.a, resp |-> resp]
                /\ pos' = pos + 1
                /\ stage' = stage
    /\ inText' = ocr[1]
    /\ inLines' = ocr[2]
    /\ UNCHANGED <<imgPaths, outVal, ext>>

\* The loop is over: "[DONE] Updated: ..."
Summary ==
    /\ stage = "loop"
    /\ pos = Len(imgPaths)
    /\ stage' = "summary"
    /\ UNCHANGED <<xlsx, last, imgPaths, pos, inText, inLines, outVal, ext>>

NextMain ==
    \/ \E ocr \in OcrResults, rd \in DateTimeResults, ra \in AmountResults,
          rx \in DescriptionResults, rn \in NoteResults :
            ProcessImage(ocr, rd, ra, rx, rn)
    \/ Summary

SpecMain == InitMain /\ [][NextMain]_vars

\* main() is one sequential loop: while an image is left the loop moves on
\* to the next one, and after the last one the summary is printed.
LoopAdvances == stage = "loop" /\ pos < Len(imgPaths) /\ pos' = pos + 1

LoopEnds == stage = "loop" /\ pos = Len(imgPaths) /\ stage' = "summary"

SpecMainFair == SpecMain /\ WF_pos(LoopAdvances) /\ WF_stage(LoopEnds)

\* C14: every image found when the batch starts is eventually upserted, and
\* the batch reaches its final summary, whatever the OCR step and the
\* extractors do.
C14_BatchProgress ==
    /\ \A i \in 1..NumFiles :
          [](i <= Len(imgPaths) => <>(pos >= i /\ RowsOf(xlsx, imgPaths[i]) # {}))
    /\ <>(stage = "summary")

\* The summary is reached after an image whose OCR failed and whose extractor
\* raised, with a row for every image.
C14_Witness ==
    /\ stage = "summary"
    /\ Len(imgPaths) = NumFiles
    /\ \A i \in DOMAIN imgPaths : RowsOf(xlsx, imgPaths[i]) # {}
    /\ inLines = << >>
    /\ last.op = "process"
    /\ last.resp.amount.kind = "raise"

\* C8 (as claimed): the amount stored in "THB Withdrawal" for an image is the
\* amount its extractor supplied, rounded half-up to 2 decimal places.
C8_StoredHalfUp ==
    (last.op = "process" /\ NonBlank(last.supplied)) =>
        CellOf(xlsx, last.key, "THB Withdrawal") = Num(RoundHalfUp(last.supplied.n))

(***************************************************************************)
(* Text: characters, character classes of the regular expressions, numbers *)
(***************************************************************************)
DigitChars == << "0", "1", "2", "3", "4", "5", "6", "7", "8", "9" >>

UpperCase == << "A", "B", "C", "D", "E", "F", "G", "H", "I", "J", "K", "L", "M", "N", "O", "P", "Q", "R", "S", "T", "U", "V", "W", "X", "Y", "Z" >>

LowerCase == << "a", "b", "c", "d", "e", "f", "g", "h", "i", "j", "k", "l", "m", "n", "o", "p", "q", "r", "s", "t", "u", "v", "w", "x", "y", "z" >>

Digits == Range(DigitChars)

Letters == Range(UpperCase) \cup Range(LowerCase)

DigitVal(c) == (CHOOSE i \in 1..10 : DigitChars[i] = c) - 1

\* str.lower()
LowerChar(c) ==
    IF c \in Range(UpperCase)
    THEN LowerCase[CHOOSE i \in 1..26 : UpperCase[i] = c]
    ELSE c

LowerText(s) == [i \in DOMAIN s |-> LowerChar(s[i])]

\* \w, \s, \d at position i of s; a position outside s holds no character
IsSpace(c) == c \in {" ", "\t", "\n"}

WordAt(s, i) == i \in DOMAIN s /\ s[i] \in Digits \cup Letters \cup {"_"}

SpaceAt(s, i) == i \in DOMAIN s /\ IsSpace(s[i])

DigitAt(s, i) == i \in DOMAIN s /\ s[i] \in Digits

LetterAt(s, i) == i \in DOMAIN s /\ s[i] \in Letters

CharAt(s, i, c) == i \in DOMAIN s /\ s[i] = c

\* \b between positions i - 1 and i
Boundary(s, i) == WordAt(s, i - 1) # WordAt(s, i)

\* \d{n} at i
AllDigits(s, i, n) == \A j \in i..(i + n - 1) : DigitAt(s, j)

\* the longest run of digits, of white space, from i
RECURSIVE DigitRun(_, _)
DigitRun(s, i) == IF DigitAt(s, i) THEN 1 + DigitRun(s, i + 1) ELSE 0

RECURSIVE SpaceRun(_, _)
SpaceRun(s, i) == IF SpaceAt(s, i) THEN 1 + SpaceRun(s, i + 1) ELSE 0

\* \.\d{2} at j
Fraction(s, j) == CharAt(s, j, ".") /\ AllDigits(s, j + 1, 2)

\* (?:,\d{3}){g} at j
GroupsAt(s, j, g) ==
    \A k \in 0..(g - 1) : CharAt(s, j + 4 * k, ",") /\ AllDigits(s, j + 4 * k + 1, 3)

\* The alternative a backtracking matcher finds first: greedy quantifiers, the
\* earlier quantifier first.
Preferred(M) ==
    CHOOSE m \in M : \A o \in M :
        \/ m[1] > o[1]
        \/ m[1] = o[1] /\ m[2] > o[2]
        \/ m[1] = o[1] /\ m[2] = o[2] /\ m[3] >= o[3]

\* s1 in s2
StartsAt(s, i, w) ==
    /\ i + Len(w) - 1 <= Len(s)
    /\ \A j \in 1..Len(w) : s[i + j - 1] = w[j]

Contains(s, w) == \E i \in 1..(Len(s) + 1) : StartsAt(s, i, w)

EndsWith(s, w) == Len(w) <= Len(s) /\ StartsAt(s, Len(s) - Len(w) + 1, w)

\* str.strip()
RECURSIVE StripLeft(_)
StripLeft(s) == IF s # << >> /\ IsSpace(Head(s)) THEN StripLeft(Tail(s)) ELSE s

RECURSIVE StripRight(_)
StripRight(s) ==
    IF s # << >> /\ IsSpace(s[Len(s)]) THEN StripRight(SubSeq(s, 1, Len(s) - 1)) ELSE s

Strip(s) == StripRight(StripLeft(s))

\* sep.join(parts)
RECURSIVE Join(_, _)
Join(parts, sep) ==
    IF parts = << >> THEN << >>
    ELSE IF Len(parts) = 1 THEN parts[1]
    ELSE parts[1] \o sep \o Join(Tail(parts), sep)

\* int() of a string of digits
RECURSIVE DigitsValue(_)
DigitsValue(s) ==
    IF s = << >> THEN 0
    ELSE 10 * DigitsValue(SubSeq(s, 1, Len(s) - 1)) + DigitVal(s[Len(s)])

\* format(n, "d")
RECURSIVE NatText(_)
NatText(n) ==
    IF n < 10 THEN << DigitChars[n + 1] >>
    ELSE NatText(n \div 10) \o << DigitChars[(n % 10) + 1] >>

\* format(n, "02d")
Fmt02(n) == IF n < 10 THEN << "0" >> \o NatText(n) ELSE NatText(n)

\* amount_str.replace(",", "")
RemoveCommas(s) == SelectSeq(s, LAMBDA c : c # ",")

\* Decimal(s) of digits with an optional 2-digit fraction, in hundredths
Cents(s) ==
    IF \E i \in DOMAIN s : s[i] = "."
    THEN LET dot == CHOOSE i \in DOMAIN s : s[i] = "."
         IN  100 * DigitsValue(SubSeq(s, 1, dot - 1))
                 + DigitsValue(SubSeq(s, dot + 1, Len(s)))
    ELSE 100 * DigitsValue(s)

\* All sequences over the vocabulary words of length 0..n.
RECURSIVE SeqsUpTo(_, _)
SeqsUpTo(words, n) ==
    IF n = 0 THEN { << >> }
    ELSE LET shorter == SeqsUpTo(words, n - 1)
         IN  shorter \cup {Append(q, w) : q \in shorter, w \in words}

\* What an amount extractor returns: nothing, or an amount in hundredths.
NoAmount == [found |-> FALSE, cents |-> 0]

Amount(c) == [found |-> TRUE, cents |-> c]

(***************************************************************************)
(* SpecAmount: scripts/image-scipts/amount_extractor.py, loaded by main()  *)
(***************************************************************************)
\* \b\d{1,3}(?:,\d{3})*(?:\.\d{2})\b at i: the lengths <<digits, groups, 0>>
AmountReGrouped(s, i) ==
    {m \in (1..3) \X (0..(Len(s) \div 4)) \X {0} :
        /\ Boundary(s, i)
        /\ AllDigits(s, i, m[1])
        /\ GroupsAt(s, i + m[1], m[2])
        /\ Fraction(s, i + m[1] + 4 * m[2])
        /\ Boundary(s, i + m[1] + 4 * m[2] + 3)}

\* \b\d+(?:\.\d{2})\b at i: the lengths <<digits, 0, 0>>
AmountRePlain(s, i) ==
    {m \in (1..DigitRun(s, i)) \X {0} \X {0} :
        /\ Boundary(s, i)
        /\ AllDigits(s, i, m[1])
        /\ Fraction(s, i + m[1])
        /\ Boundary(s, i + m[1] + 3)}

\* AMOUNT_RE at i: the position after the match, 0 without a match
AmountReEnd(s, i) ==
    IF AmountReGrouped(s, i) # {}
    THEN LET m == Preferred(AmountReGrouped(s, i)) IN i + m[1] + 4 * m[2] + 3
    ELSE IF AmountRePlain(s, i) # {}
    THEN LET m == Preferred(AmountRePlain(s, i)) IN i + m[1] + 3
    ELSE 0

\* AMOUNT_RE.findall(text), from position i on
RECURSIVE AmountReFindAll(_, _)
AmountReFindAll(s, i) ==
    IF i > Len(s) THEN << >>
    ELSE LET e == AmountReEnd(s, i)
         IN  IF e > 0 THEN << SubSeq(s, i, e - 1) >> \o AmountReFindAll(s, e)
             ELSE AmountReFindAll(s, i + 1)

\* if amt > 0: amounts.append(amt)
KeepAmount(c) == c > 0

\* extract_amount(text): the largest positive match, or None
ExtractAmount(text) ==
    LET matches == AmountReFindAll(text, 1)
        amounts == {Cents(RemoveCommas(matches[i])) : i \in DOMAIN matches}
        kept == {c \in amounts : KeepAmount(c)}
    IN  IF kept = {} THEN NoAmount
        ELSE Amount(CHOOSE c \in kept : \A o \in kept : o <= c)

\* extract(image_path, text, lines)["thb_withdrawal"]
PipelineAmount(text, lines) == ExtractAmount(text)

MaxWords == 2

\* The words of a transcript; the amounts stay below 2^31 hundredths.
AmountWords ==
    { << "7", "5", "9", ".", "0", "0" >>,
      << "2", ",", "5", "0", "0", ".", "0", "0" >>,
      << "0", ".", "0", "0" >>,
      << "0", ".", "5", "0" >>,
      << "1", "0", ",", "0", "0", "0", ",", "0", "0", "0", ".", "0", "0" >>,
      << "1", "0", ",", "0", "0", "0", ",", "0", "0", "0", ".", "0", "1" >>,
      << "1", "2", ",", "3", "4", "5", ",", "6", "7", "8", ".", "0", "0" >>,
      << "2", "0", "0", "0", "0", "0", "0", "0", ".", "0", "0" >>,
      << "7", "5", "9", ".", "0", "0", "T", "H", "B" >>,
      << "F", "e", "e" >>,
      << "1", "2", "3", "4" >>,
      << "1", ",", "0", "0", ".", "0", "0" >> }

AmountTexts == {Join(q, << " " >>) : q \in SeqsUpTo(AmountWords, MaxWords)}

InitAmount ==
    /\ xlsx = NoFile
    /\ last = NoOp
    /\ imgPaths = << >>
    /\ pos = 0
    /\ ext = NoModules
    /\ inText \in AmountTexts
    /\ inLines = << >>
    /\ outVal = NoAmount
    /\ stage = "input"

RunPipelineAmount ==
    /\ stage = "input"
    /\ outVal' = PipelineAmount(inText, inLines)
    /\ stage' = "done"
    /\ UNCHANGED <<xlsx, last, imgPaths, pos, inText, inLines, ext>>

NextAmount == RunPipelineAmount

SpecAmount == InitAmount /\ [][NextAmount]_vars

\* C7 (as claimed): the amount extractor main() loads returns nothing or a
\* value v with 0 < v <= 10,000,000, for every transcript.
C7_AmountInRange ==
    (stage = "done" /\ outVal.found) =>
        (outVal.cents > 0 /\ outVal.cents <= 1000000000)

(***************************************************************************)
(* SpecDate: scripts/image-scripts/date_extractor.py                       *)
(***************************************************************************)
\* _MONTH: the keys, at the index that is their value
MonthKeys ==
    << << "j", "a", "n" >>,
       << "f", "e", "b" >>,
       << "m", "a", "r" >>,
       << "a", "p", "r" >>,
       << "m", "a", "y" >>,
       << "j", "u", "n" >>,
       << "j", "u", "l" >>,
       << "a", "u", "g" >>,
       << "s", "e", "p" >>,
       << "o", "c", "t" >>,
       << "n", "o", "v" >>,
       << "d", "e", "c" >> >>

\* s.replace("O", "0").replace("o", "0").replace("I", "1").replace("l", "1")
FixOcrChar(c) ==
    CASE c = "O" -> "0"
      [] c = "o" -> "0"
      [] c = "I" -> "1"
      [] c = "l" -> "1"
      [] OTHER -> c

FixOcrDigits(s) == [i \in DOMAIN s |-> FixOcrChar(s[i])]

\* DATE_RE at i: the lengths <<day digits, white space, white space>> of
\* \b(\d{1,2})\s+([A-Za-z]{3})\s+(\d{2})\b
DateReAt(s, i) ==
    UNION { UNION { { <<a, w1, w2>> :
                        w2 \in {w \in 1..SpaceRun(s, i + a + w1 + 3) :
                                  /\ AllDigits(s, i + a + w1 + 3 + w, 2)
                                  /\ Boundary(s, i + a + w1 + 3 + w + 2)} } :
                    w1 \in {w \in 1..SpaceRun(s, i + a) :
                              \A j \in 0..2 : LetterAt(s, i + a + w + j)} } :
            a \in {n \in 1..2 : Boundary(s, i) /\ AllDigits(s, i, n)} }

\* DATE_RE.search(s): the groups d, m, y of the leftmost match
DateReGroups(s, i, g) ==
    [ok |-> TRUE,
     d |-> SubSeq(s, i, i + g[1] - 1),
     m |-> SubSeq(s, i + g[1] + g[2], i + g[1] + g[2] + 2),
     y |-> SubSeq(s, i + g[1] + g[2] + 3 + g[3], i + g[1] + g[2] + 3 + g[3] + 1)]

DateReLeftmost(s, at) ==
    IF at = {} THEN [ok |-> FALSE, d |-> << >>, m |-> << >>, y |-> << >>]
    ELSE DateReGroups(s, Min(at), Preferred(DateReAt(s, Min(at))))

DateReSearch(s) == DateReLeftmost(s, {i \in DOMAIN s : DateReAt(s, i) # {}})

\* TIME_RE at i: \b([0-2OIl]\d)[:\.]([0-5OIl]\d)\b
TimeReAt(s, i) ==
    /\ Boundary(s, i)
    /\ i \in DOMAIN s /\ s[i] \in {"0", "1", "2", "O", "I", "l"}
    /\ DigitAt(s, i + 1)
    /\ (CharAt(s, i + 2, ":") \/ CharAt(s, i + 2, "."))
    /\ i + 3 \in DOMAIN s /\ s[i + 3] \in {"0", "1", "2", "3", "4", "5", "O", "I", "l"}
    /\ DigitAt(s, i + 4)
    /\ Boundary(s, i + 5)

\* TIME_RE.search(s): the groups h, min of the leftmost match
TimeReLeftmost(s, at) ==
    IF at = {} THEN [ok |-> FALSE, h |-> << >>, min |-> << >>]
    ELSE [ok |-> TRUE,
          h |-> SubSeq(s, Min(at), Min(at) + 1),
          min |-> SubSeq(s, Min(at) + 3, Min(at) + 4)]

TimeReSearch(s) == TimeReLeftmost(s, {i \in DOMAIN s : TimeReAt(s, i)})

Clamp(x, lo, hi) == IF x < lo THEN lo ELSE IF x > hi THEN hi ELSE x

\* _fmt_date(d, m, y2)
FmtDate(d, m, y2) == Fmt02(m) \o << "/" >> \o Fmt02(d) \o << "/" >> \o NatText(2000 + y2)

\* Mutant: the time is formatted as parsed, without the clamp.
FmtTimeUnclamped(h, m) == Fmt02(h) \o << ":" >> \o Fmt02(m)

\* _fmt_time(h, m)
FmtTime(h, m) == Fmt02(Clamp(h, 0, 23)) \o << ":" >> \o Fmt02(Clamp(m, 0, 59))

\* s = _fix_ocr_digits(line.strip()), the text DATE_RE and TIME_RE search
FixedLine(line) == FixOcrDigits(Strip(line))

\* _MONTH.get(mname): 0 for None
MonthGet(mname) ==
    IF \E i \in DOMAIN MonthKeys : MonthKeys[i] = mname
    THEN CHOOSE i \in DOMAIN MonthKeys : MonthKeys[i] = mname
    ELSE 0

\* The time part of _parse_date_time_from_line, from the TIME_RE match tm
TimeOfMatch(tm) ==
    IF tm.ok
    THEN FmtTime(DigitsValue(FixOcrDigits(tm.h)), DigitsValue(FixOcrDigits(tm.min)))
    ELSE << >>

\* The body of _parse_date_time_from_line, from the DATE_RE match dm, the
\* month number m and the TIME_RE match tm
DateTimeOfMatches(dm, m, tm) ==
    IF ~dm.ok \/ m = 0 THEN << << >>, << >> >>
    ELSE << FmtDate(DigitsValue(dm.d), m, DigitsValue(dm.y)), TimeOfMatch(tm) >>

DateTimeOfDate(dm, tm) == DateTimeOfMatches(dm, MonthGet(LowerText(dm.m)), tm)

DateTimeOfFixed(s) == DateTimeOfDate(DateReSearch(s), TimeReSearch(s))

\* _parse_date_time_from_line(line): <<date, time>>, << >> for ""
ParseDateTimeFromLine(line) == DateTimeOfFixed(FixedLine(line))

\* REF_TS_RE at i: \b(20\d{12})\d*\b
RefTsAt(s, i) ==
    /\ Boundary(s, i)
    /\ CharAt(s, i, "2")
    /\ CharAt(s, i + 1, "0")
    /\ AllDigits(s, i + 2, 12)
    /\ \E e \in 0..DigitRun(s, i + 14) : Boundary(s, i + 14 + e)

\* _parse_from_reference(lines): the first line with a reference decides
\* The date and time of the 14 digits ts = YYYYMMDDHHMMSS
DateTimeOfStamp(ts) ==
    << Fmt02(DigitsValue(SubSeq(ts, 5, 6))) \o << "/" >>
          \o Fmt02(DigitsValue(SubSeq(ts, 7, 8))) \o << "/" >>
          \o NatText(DigitsValue(SubSeq(ts, 1, 4))),
       FmtTime(DigitsValue(SubSeq(ts, 9, 10)), DigitsValue(SubSeq(ts, 11, 12))) >>

RefTsSearch(ln) == {i \in DOMAIN ln : RefTsAt(ln, i)}

RECURSIVE ParseFromReference(_)
RefInLine(ln, at, rest) ==
    IF at = {} THEN ParseFromReference(rest)
    ELSE DateTimeOfStamp(SubSeq(ln, Min(at), Min(at) + 13))

ParseFromReference(lines) ==
    IF lines = << >> THEN << << >>, << >> >>
    ELSE RefInLine(Head(lines), RefTsSearch(Head(lines)), Tail(lines))

\* Pass 1 of extract: the first line that yields a date wins
RECURSIVE FirstDateLine(_)
DateLineOr(r, rest) == IF r[1] # << >> THEN r ELSE FirstDateLine(rest)

FirstDateLine(lines) ==
    IF lines = << >> THEN << << >>, << >> >>
    ELSE DateLineOr(ParseDateTimeFromLine(Head(lines)), Tail(lines))

\* Mutant: the reference, when there is one, replaces what pass 1 found.
FillFromReferenceFirst(p1, p2) ==
    [date |-> IF p2[1] # << >> THEN p2[1] ELSE p1[1],
     time |-> IF p2[2] # << >> THEN p2[2] ELSE p1[2]]

\* Fallback of extract: the reference fills what pass 1 left empty
FillFromReference(p1, p2) ==
    [date |-> IF p1[1] = << >> THEN p2[1] ELSE p1[1],
     time |-> IF p1[2] = << >> THEN p2[2] ELSE p1[2]]

DateTimeOrReference(p1, lines) ==
    IF p1[1] = << >> \/ p1[2] = << >>
    THEN FillFromReference(p1, ParseFromReference(lines))
    ELSE [date |-> p1[1], time |-> p1[2]]

\* extract(image_path, text, lines) of date_extractor.py
ExtractDateTime(text, lines) == DateTimeOrReference(FirstDateLine(lines), lines)

\* The lines <day> <month> <year>[,] <hour>:<minute> the extractor is run on.
MonthTitles ==
    << << "J", "a", "n" >>,
       << "F", "e", "b" >>,
       << "M", "a", "r" >>,
       << "A", "p", "r" >>,
       << "M", "a", "y" >>,
       << "J", "u", "n" >>,
       << "J", "u", "l" >>,
       << "A", "u", "g" >>,
       << "S", "e", "p" >>,
       << "O", "c", "t" >>,
       << "N", "o", "v" >>,
       << "D", "e", "c" >> >>

\* str.upper()
UpperChar(c) ==
    IF c \in Range(LowerCase)
    THEN UpperCase[CHOOSE i \in 1..26 : LowerCase[i] = c]
    ELSE c

UpperText(s) == [i \in DOMAIN s |-> UpperChar(s[i])]

Spellings(m) == {MonthTitles[m], LowerText(MonthTitles[m]), UpperText(MonthTitles[m])}

DayTexts == { << "1" >>, << "0", "7" >>, << "3", "1" >> }

YearTexts == { << "2", "5" >>, << "0", "7" >> }

HourTexts == { << "0", "0" >>, << "0", "9" >>, << "2", "3" >> }

MinuteTexts == { << "0", "0" >>, << "5", "9" >> }

Separators == { << "," >>, << ",", " " >>, << " " >> }

ReferenceLine == << "T", "r", "a", "n", "s", "a", "c", "t", "i", "o", "n", " ", "r", "e", "f", "e", "r", "e", "n", "c", "e", " ", "2", "0", "2", "5", "0", "3", "2", "9", "1", "8", "5", "5", "0", "1", "2", "3" >>

FollowingLines == { << >>, << ReferenceLine >> }

DateLine(day, month, year, sep, hour, minute) ==
    day \o << " " >> \o month \o << " " >> \o year \o sep \o hour \o << ":" >> \o minute

InitDate ==
    /\ xlsx = NoFile
    /\ imgPaths = << >>
    /\ pos = 0
    /\ ext = NoModules
    /\ outVal = [date |-> << >>, time |-> << >>]
    /\ stage = "input"
    /\ \E day \in DayTexts, m \in DOMAIN MonthTitles, year \in YearTexts,
          sep \in Separators, hour \in HourTexts, minute \in MinuteTexts,
          more \in FollowingLines :
          \E month \in Spellings(m) :
            /\ inLines = << DateLine(day, month, year, sep, hour, minute) >> \o more
            /\ inText = Join(inLines, << "\n" >>)
            /\ last = [op |-> "line", day |-> DigitsValue(day), month |-> m,
                       spelling |-> month, year |-> DigitsValue(year),
                       hour |-> DigitsValue(hour), minute |-> DigitsValue(minute)]

RunExtractDateTime ==
    /\ stage = "input"
    /\ outVal' = ExtractDateTime(inText, inLines)
    /\ stage' = "done"
    /\ UNCHANGED <<xlsx, last, imgPaths, pos, inText, inLines, ext>>

NextDate == RunExtractDateTime

SpecDate == InitDate /\ [][NextDate]_vars

\* C9 (as claimed): for every line <day> <month> <2-digit year>[,] <hour>:<minute>,
\* with any of the 12 month abbreviations in any letter case, the extractor
\* returns date MM/DD/20YY and time HH:MM of that line.
C9_EveryMonthParsed ==
    stage = "done" =>
        outVal = [date |-> Fmt02(last.month) \o << "/" >> \o Fmt02(last.day)
                              \o << "/", "2", "0" >> \o Fmt02(last.year),
                  time |-> Fmt02(last.hour) \o << ":" >> \o Fmt02(last.minute)]

(***************************************************************************)
(* SpecLabel: scripts/image-scripts/amount_extractor.py                    *)
(***************************************************************************)
\* (?:,\d{3})* from j, greedy: the position after the last group
RECURSIVE GroupsEnd(_, _)
GroupsEnd(s, j) ==
    IF CharAt(s, j, ",") /\ AllDigits(s, j + 1, 3) THEN GroupsEnd(s, j + 4) ELSE j

\* (?:\.\d{2})? from j: the position after it
FractionEnd(s, j) == IF Fraction(s, j) THEN j + 3 ELSE j

\* simple_pattern \d+(?:,\d{3})*(?:\.\d{2})? at a digit i: the position after
\* the match (every part after \d+ is optional, so the greedy attempt succeeds)
SimplePatternEnd(s, i) == FractionEnd(s, GroupsEnd(s, i + DigitRun(s, i)))

\* re.findall(simple_pattern, text), from position i on
RECURSIVE SimplePatternFindAll(_, _)
SimplePatternFindAll(s, i) ==
    IF i > Len(s) THEN << >>
    ELSE IF DigitAt(s, i)
    THEN << SubSeq(s, i, SimplePatternEnd(s, i) - 1) >>
            \o SimplePatternFindAll(s, SimplePatternEnd(s, i))
    ELSE SimplePatternFindAll(s, i + 1)

HasDot(match) == \E i \in DOMAIN match : match[i] = "."

\* match.split(".")[-1]
RECURSIVE AfterLastDot(_)
AfterLastDot(match) ==
    IF match = << >> \/ match[Len(match)] = "." THEN << >>
    ELSE Append(AfterLastDot(SubSeq(match, 1, Len(match) - 1)), match[Len(match)])

\* The two "continue" tests of extract_numbers_from_text
KeepNumber(match) ==
    /\ ~(~HasDot(match) /\ Len(RemoveCommas(match)) > 6)
    /\ HasDot(match) => Len(AfterLastDot(match)) = 2

\* extract_numbers_from_text(text)
ExtractNumbersFromText(text) == SelectSeq(SimplePatternFindAll(text, 1), KeepNumber)

\* Decimal("10000000"), in hundredths
MaxAmountCents == 1000000000

\* format(n, ",d")
RECURSIVE GroupText(_)
GroupText(n) ==
    IF n < 1000 THEN NatText(n)
    ELSE GroupText(n \div 1000) \o << "," >>
            \o SubSeq(NatText(1000 + (n % 1000)), 2, 4)

\* f"{decimal_val:,.2f}" of a value in hundredths
FormatCents(c) == GroupText(c \div 100) \o << "." >> \o Fmt02(c % 100)

\* The range test and the formatting of clean_amount; << >> is None
CleanCents(c) == IF c <= 0 \/ c > MaxAmountCents THEN << >> ELSE FormatCents(c)

\* clean_amount(amount_str)
CleanAmount(amount_str) ==
    IF amount_str = << >> THEN << >> ELSE CleanCents(Cents(RemoveCommas(amount_str)))

THB == << "T", "H", "B" >>

\* The first truthy element of a sequence of strings, << >> without one
RECURSIVE FirstNonEmpty(_)
FirstNonEmpty(q) ==
    IF q = << >> THEN << >>
    ELSE IF Head(q) # << >> THEN Head(q)
    ELSE FirstNonEmpty(Tail(q))

\* The body of "for num in numbers": what it returns for num, << >> to go on
CleanedNumber(search_line, num) ==
    IF /\ EndsWith(search_line, THB) /\ ~EndsWith(num, THB)
       /\ Contains(search_line, num \o THB)
       /\ CleanAmount(num) # << >>
    THEN CleanAmount(num)
    ELSE CleanAmount(num)

CleanedOf(search_line, numbers) ==
    FirstNonEmpty([k \in DOMAIN numbers |-> CleanedNumber(search_line, numbers[k])])

\* The body of "for j, search_line in enumerate(search_lines)"
CleanedInLine(search_line) == CleanedOf(search_line, ExtractNumbersFromText(search_line))

\* lines[i : min(i + 4, len(lines))], i counted from 1
SearchLines(lines, i) == SubSeq(lines, i, Min({i + 3, Len(lines)}))

CleanedInLines(search_lines) ==
    FirstNonEmpty([j \in DOMAIN search_lines |-> CleanedInLine(search_lines[j])])

AmountLabel == << "a", "m", "o", "u", "n", "t" >>

\* "amount" in line.lower().strip()
HasAmountLabel(line) == Contains(Strip(LowerText(line)), AmountLabel)

\* find_amount_near_amount_label(lines); << >> is None
FindAmountNearAmountLabel(lines) ==
    FirstNonEmpty([i \in DOMAIN lines |->
                     IF HasAmountLabel(lines[i])
                     THEN CleanedInLines(SearchLines(lines, i))
                     ELSE << >>])

\* The values, in hundredths, that clean_amount accepts among numbers
CleanedCents(numbers) ==
    {Cents(RemoveCommas(numbers[k])) : k \in DOMAIN numbers} \cap (1..MaxAmountCents)

BestAmount(cs) ==
    IF cs = {} THEN << >> ELSE FormatCents(CHOOSE c \in cs : \A o \in cs : o <= c)

\* find_largest_reasonable_amount(text, lines); << >> is None
FindLargestReasonableAmount(text, lines) ==
    IF text = << >> /\ lines = << >> THEN << >>
    ELSE BestAmount(CleanedCents(ExtractNumbersFromText(
             text \o << " " >> \o Join(lines, << " " >>))))

WithdrawalOr(amount, text, lines) ==
    IF amount # << >> THEN amount ELSE FindLargestReasonableAmount(text, lines)

BothKeys(amount) == [withdrawal |-> amount, thb_withdrawal |-> amount]

\* extract(image_path, text, lines) of image-scripts/amount_extractor.py
ExtractWithdrawal(text, lines) ==
    BothKeys(WithdrawalOr(FindAmountNearAmountLabel(lines), text, lines))

\* The transcripts the extractor is run on: up to MaxLines of these lines.
MaxLines == 5

ReceiptLines ==
    { << "A", "m", "o", "u", "n", "t" >>,
      << "2", ",", "5", "0", "0", ".", "0", "0", " ", "T", "H", "B" >>,
      << "7", "5", "9", ".", "0", "0", "T", "H", "B" >>,
      << "R", "e", "f", " ", "1", "2", "3", "4" >>,
      << "F", "e", "e", " ", "0", ".", "0", "0", " ", "T", "H", "B" >>,
      << "1", "2", ",", "3", "4", "5", ",", "6", "7", "8", ".", "0", "0" >> }

InitLabel ==
    /\ xlsx = NoFile
    /\ last = NoOp
    /\ imgPaths = << >>
    /\ pos = 0
    /\ ext = NoModules
    /\ outVal = BothKeys(<< >>)
    /\ stage = "input"
    /\ inLines \in SeqsUpTo(ReceiptLines, MaxLines)
    /\ inText = Join(inLines, << "\n" >>)

RunExtractWithdrawal ==
    /\ stage = "input"
    /\ outVal' = ExtractWithdrawal(inText, inLines)
    /\ stage' = "done"
    /\ UNCHANGED <<xlsx, last, imgPaths, pos, inText, inLines, ext>>

NextLabel == RunExtractWithdrawal

SpecLabel == InitLabel /\ [][NextLabel]_vars

\* A money token of the amount grammar: a number with its 2-digit fraction.
MoneyTokens(line) == SelectSeq(SimplePatternFindAll(line, 1), HasDot)

ValidMoneyIn(line) ==
    FirstNonEmpty([k \in DOMAIN MoneyTokens(line) |-> CleanAmount(MoneyTokens(line)[k])])

LabelLine(lines) == Min({i \in DOMAIN lines : HasAmountLabel(lines[i])})

FirstValidMoney(search_lines) ==
    FirstNonEmpty([j \in DOMAIN search_lines |-> ValidMoneyIn(search_lines[j])])

\* C10 (as claimed): when a line contains the amount label and a valid money
\* token stands on that line or on one of the next 3 lines, the extractor
\* returns the first such token, with thousands separators and 2 decimals,
\* whether or not a space separates it from the currency code.
C10_FirstMoneyTokenAfterLabel ==
    (/\ stage = "done"
     /\ \E i \in DOMAIN inLines : HasAmountLabel(inLines[i])
     /\ FirstValidMoney(SearchLines(inLines, LabelLine(inLines))) # << >>)
    => outVal.withdrawal = FirstValidMoney(SearchLines(inLines, LabelLine(inLines)))

(***************************************************************************)
(* SpecDescription: scripts/image-scripts/description_extractor.py         *)
(***************************************************************************)
\* _TH_RE [U+0E00-U+0E7F]: a Thai character is written by its code point
ThaiChars == { "U+0E2A", "U+0E21", "U+0E0A", "U+0E32", "U+0E22" }

\* _is_thai(s)
IsThai(s) == \E i \in DOMAIN s : s[i] \in ThaiChars

\* re.sub(r"\s+", " ", s)
RECURSIVE CollapseSpaces(_)
CollapseSpaces(s) ==
    IF s = << >> THEN << >>
    ELSE IF IsSpace(Head(s)) THEN << " " >> \o CollapseSpaces(StripLeft(s))
    ELSE << Head(s) >> \o CollapseSpaces(Tail(s))

\* _norm(s)
Norm(s) == Strip(CollapseSpaces(s))

\* _LABELS
Labels ==
    { << "f", "e", "e" >>,
      << "b", "a", "n", "k", " ", "r", "e", "f", "e", "r", "e", "n", "c", "e", " ", "n", "o", "." >>,
      << "t", "r", "a", "n", "s", "a", "c", "t", "i", "o", "n", " ", "r", "e", "f", "e", "r", "e", "n", "c", "e" >>,
      << "t", "r", "a", "n", "s", "a", "c", "t", "i", "o", "n", " ", "i", "d" >>,
      << "b", "i", "l", "l", "e", "r", " ", "i", "d" >>,
      << "m", "e", "r", "c", "h", "a", "n", "t", " ", "i", "d" >>,
      << "s", "e", "r", "v", "i", "c", "e", " ", "c", "o", "d", "e" >>,
      << "r", "e", "f", "e", "r", "e", "n", "c", "e", " ", "n", "o", "." >>,
      << "r", "e", "f", "e", "r", "n", "c", "e", " ", "n", "o", "." >>,
      << "p", "r", "o", "m", "p", "t", "p", "a", "y" >>,
      << "s", "c", "a", "n", " ", "t", "o", " ", "v", "e", "r", "i", "f", "y" >>,
      << "e", "-", "w", "a", "l", "l", "e", "t", " ", "n", "u", "m", "b", "e", "r" >>,
      << "e", "-", "w", "a", "l", "l", "e", "t", " ", "n", "u", "m", "b", "e", "r", "." >>,
      << "k", " ", "p", "l", "u", "s", " ", "w", "a", "l", "l", "e", "t" >>,
      << "g", "-", "w", "a", "l", "l", "e", "t" >>,
      << "k", "+", " ", "s", "h", "o", "p" >> }

\* _is_labelish(s): any(lbl in low for lbl in _LABELS)
IsLabelish(s) == \E lbl \in Labels : Contains(LowerText(s), lbl)

\* _IDISH [\d\-xX]{4,}
IdishLen == 4

IdishChars == Digits \cup {"-", "x", "X"}

Idish(s) ==
    \E i \in DOMAIN s : \A j \in i..(i + IdishLen - 1) : j \in DOMAIN s /\ s[j] \in IdishChars

\* _good_name_line after s = _norm(s)
GoodNormed(s) == s # << >> /\ ~IsLabelish(s) /\ ~Idish(s)

\* _good_name_line(s)
GoodNameLine(s) == GoodNormed(Norm(s))

\* _norm(raw).lower() == "to"
IsToAnchor(raw) == LowerText(Norm(raw)) = << "t", "o" >>

\* _norm(lines[k]) if k < len(lines) else "", k counted from 1
Candidate(lines, k) == IF k <= Len(lines) THEN Norm(lines[k]) ELSE << >>

\* parts, after the two "if cand and _good_name_line(cand)" tests
NameParts(cand1, cand2) ==
    (IF cand1 # << >> /\ GoodNameLine(cand1) THEN << cand1 >> ELSE << >>)
        \o (IF cand2 # << >> /\ GoodNameLine(cand2) THEN << cand2 >> ELSE << >>)

Thai == << "T", "h", "a", "i" >>

\* Mutant: the Thai override looks at the first candidate only.
DescriptionOfFirstThaiOnly(cand1, cand2) ==
    IF cand1 # << >> /\ IsThai(cand1) THEN Thai
    ELSE Strip(Join(NameParts(cand1, cand2), << " " >>))

\* The body of the anchor branch of _pick_description_after_to
DescriptionOf(cand1, cand2) ==
    IF cand1 # << >> /\ IsThai(cand1) THEN Thai
    ELSE IF cand2 # << >> /\ IsThai(cand2) THEN Thai
    ELSE Strip(Join(NameParts(cand1, cand2), << " " >>))

\* The lines that are a 'To' anchor
ToAnchors(lines) == {i \in DOMAIN lines : IsToAnchor(lines[i])}

DescriptionAt(lines, i) == DescriptionOf(Candidate(lines, i + 1), Candidate(lines, i + 2))

\* _pick_description_after_to(lines): the first anchor returns
PickDescriptionAfterTo(lines) ==
    IF ToAnchors(lines) = {} THEN << >> ELSE DescriptionAt(lines, Min(ToAnchors(lines)))

\* extract(image_path, text, lines) of description_extractor.py
ExtractDescription(text, lines) == [description |-> PickDescriptionAfterTo(lines)]

\* The transcripts the extractor is run on: up to MaxDescLines of these lines.
MaxDescLines == 4

DescriptionLines ==
    { << "T", "o" >>,
      << "M", "R", " ", "J", "O", "H", "N", " ", "H", "A", "R", "R", "I", "S" >>,
      << "0", "9", "9", "-", "1", "2", "3", "-", "4", "5", "6", "7" >>,
      << "U+0E2A", "U+0E21", "U+0E0A", "U+0E32", "U+0E22" >>,
      << "C", "O", "F", "F", "E", "E", " ", "C", "L", "U", "B" >>,
      << "F", "e", "e", " ", "0", ".", "0", "0", " ", "T", "H", "B" >>,
      << " ", "t", "o", " ", " " >>,
      << "K", "+", " ", "S", "h", "o", "p", " ", " ", "4", "2" >> }

InitDescription ==
    /\ xlsx = NoFile
    /\ last = NoOp
    /\ imgPaths = << >>
    /\ pos = 0
    /\ ext = NoModules
    /\ outVal = [description |-> << >>]
    /\ stage = "input"
    /\ inLines \in SeqsUpTo(DescriptionLines, MaxDescLines)
    /\ inText = Join(inLines, << "\n" >>)

RunExtractDescription ==
    /\ stage = "input"
    /\ outVal' = ExtractDescription(inText, inLines)
    /\ stage' = "done"
    /\ UNCHANGED <<xlsx, last, imgPaths, pos, inText, inLines, ext>>

NextDescription == RunExtractDescription

SpecDescription == InitDescription /\ [][NextDescription]_vars

\* The line k places after the first 'To' anchor, as it stands in the transcript
AfterTo(k) ==
    IF ToAnchors(inLines) # {} /\ Min(ToAnchors(inLines)) + k <= Len(inLines)
    THEN inLines[Min(ToAnchors(inLines)) + k]
    ELSE << >>

\* C11: if one of the (up to) two lines after the first 'To' anchor holds a
\* Thai character, the description is exactly "Thai", whatever the other
\* candidate line is.
C11_ThaiOverride ==
    (stage = "done" /\ (IsThai(AfterTo(1)) \/ IsThai(AfterTo(2))))
    => outVal.description = Thai

\* The second candidate is Thai and the first one a name the filter accepts.
C11_Witness ==
    /\ stage = "done"
    /\ IsThai(AfterTo(2))
    /\ AfterTo(1) = << "M", "R", " ", "J", "O", "H", "N", " ", "H", "A", "R", "R", "I", "S" >>
    /\ outVal.description = Thai

\* A known non-name label stands in the line: the words of a label of the
\* set, not part of a longer word.
LabelWordAt(s, i, lbl) ==
    /\ StartsAt(LowerText(s), i, lbl)
    /\ ~LetterAt(s, i - 1)
    /\ ~LetterAt(s, i + Len(lbl))

IsKnownLabel(s) == \E lbl \in Labels : \E i \in DOMAIN s : LabelWordAt(s, i, lbl)

Survives(s) == s # << >> /\ ~IsKnownLabel(s) /\ ~Idish(s)

\* C12 (as claimed): with no Thai text in the candidates, the description is
\* the candidate lines after the first 'To' anchor that are neither a known
\* non-name label nor hold a run of 4 or more digit/dash/x characters, joined
\* in order by one space; it is empty without a surviving candidate or an
\* anchor.
C12_DescriptionIsSurvivors ==
    (stage = "done" /\ ~IsThai(AfterTo(1)) /\ ~IsThai(AfterTo(2)))
    => outVal.description =
          Join(SelectSeq(<< Norm(AfterTo(1)), Norm(AfterTo(2)) >>, Survives), << " " >>)

(***************************************************************************)
(* SpecIsolation: one image, any modules, any answers of the extractors    *)
(***************************************************************************)
\* A module with the interface of the extractors, extract(image_path, text,
\* lines), as scripts/image-scripts ships the four of them.
Shipped == Module({"extract"})

ModuleSets ==
    [date : {NoModule, Shipped, Module({"extract_date_time"})},
     amount : {NoModule, Shipped},
     desc : {NoModule, Shipped},
     note : {NoModule, Shipped}]

DateTimeAnswers ==
    { Raises, NotADict, Dict(Blank, Blank), Dict(Str("01/07/2025"), Str("14:24")),
      Dict(Str("01/07/2025"), Num(1424)) }

AmountAnswers ==
    { Raises, NotADict, Dict(Blank, Blank), Dict(Num(759000), Blank), Dict(Str("abc"), Blank) }

DescriptionAnswers ==
    { Raises, NotADict, Dict(Str("MR JOHN HARRIS"), Blank), Dict(Num(5), Blank) }

NoteAnswers == { Raises, NotADict, Dict(Str(" lunch "), Blank), Dict(Blank, Blank) }

InitIsolation ==
    /\ xlsx = NoFile
    /\ last = NoOp
    /\ imgPaths = << AllFilenames[1] >>
    /\ pos = 0
    /\ inText = << >>
    /\ inLines = << >>
    /\ outVal = Blank
    /\ stage = "loop"
    /\ ext \in ModuleSets

NextIsolation ==
    \/ \E rd \in DateTimeAnswers, ra \in AmountAnswers,
          rx \in DescriptionAnswers, rn \in NoteAnswers :
            ProcessImage(OcrRead, rd, ra, rx, rn)
    \/ Summary

SpecIsolation == InitIsolation /\ [][NextIsolation]_vars

\* A result as the extractors' contract has it: a dict whose values are
\* strings (a number or empty for the amount).
WellFormed(f, r) ==
    /\ r.kind = "dict"
    /\ IF f = "amount" THEN r.a.t # "str" ELSE r.a.t # "num" /\ r.b.t # "num"

\* The extractor of family f is there and answers as its contract says.
Healthy(f) == ext[f].loaded /\ WellFormed(f, last.resp[f])

\* The fields of family f in the update record.
FieldsOf(f, payload) ==
    CASE f = "date" -> << payload["Date"], payload["Time"] >>
      [] f = "amount" -> << payload["THB Withdrawal"] >>
      [] f = "desc" -> << payload["Description"] >>
      [] f = "note" -> << payload["Note"] >>

\* The values of a well-formed result r of family f, as main() maps them.
ValuesOf(f, r) ==
    CASE f = "date" -> << StripStr(r.a), StripStr(r.b) >>
      [] f = "amount" -> << ThbWithdrawal(r.a) >>
      [] f = "desc" -> << StripStr(r.a) >>
      [] f = "note" -> << StripStr(r.a) >>

\* C13 (as claimed): an extractor that raises, returns a malformed result or
\* is absent leaves the fields of its own family empty, and every other
\* extractor is still called: its values stand in the update record.
C13_ExtractorIsolation ==
    last.op = "process" =>
        \A f \in DOMAIN ext :
            IF Healthy(f)
            THEN FieldsOf(f, last.payload) = ValuesOf(f, last.resp[f])
            ELSE \A i \in DOMAIN FieldsOf(f, last.payload) :
                     ~NonBlank(FieldsOf(f, last.payload)[i])

(***************************************************************************)
(* SpecLedger: _upsert on a workbook that also holds hand-made entries     *)
(***************************************************************************)
\* A workbook with the program's columns and one row entered by hand: no
\* image, a deposit still written as text, a rate with three decimals.
ManualRow ==
    [h \in HeaderSet |->
        CASE h = "Date" -> Str("12/31/2024")
          [] h = "THB Deposit" -> Str("pending")
          [] h = "FX rate" -> Num(33456)
          [] h = "Description" -> Str("RENT")
          [] h = "Source" -> Str("Manual")
          [] OTHER -> Blank]

ManualBook == [exists |-> TRUE, columns |-> HEADERS, rows |-> << ManualRow >>]

\* An update record that names the column of a default of the new row.
WithSource(payload, v) ==
    [k \in DOMAIN payload \cup {"Source"} |->
        IF k = "Source" THEN v ELSE payload[k]]

\* Update records with a zero amount, and with an amount of three decimals
\* and a source of its own.
LedgerPayloads ==
    { MainPayload(Blank, Blank, Num(0), Blank, Blank),
      WithSource(MainPayload(Str("01/07/2025"), Blank, Num(2675), Blank, Blank),
                 Str("K PLUS")) }

InitLedger ==
    /\ xlsx \in {NoFile, ManualBook}
    /\ last = NoOp
    /\ Idle

NextLedger ==
    \E filename \in Filenames, payload \in LedgerPayloads : Upsert(filename, payload)

SpecLedger == InitLedger /\ [][NextLedger]_vars

\* The frame _upsert has once the payload is merged, before the numbers are
\* finalized: row i of it is row i of the workbook written.
Merged(x, filename, payload) == UpsertFrame(ReadOrNew(x), filename, payload)

Rounded2(v) == v.t = "num" /\ v.n % 10 = 0

\* C15: after an upsert every cell of a numeric column is empty or a number
\* of 2 decimals; a cell whose merged value is no number is empty, not zero;
\* a zero amount of the update record stands as zero in the row of its key.
C15_NumericFinalized ==
    [][last'.op = "upsert" =>
         /\ \A i \in DOMAIN xlsx'.rows : \A c \in NumericCols :
               /\ ~NonBlank(xlsx'.rows[i][c]) \/ Rounded2(xlsx'.rows[i][c])
               /\ Merged(xlsx, last'.key, last'.payload).rows[i][c].t = "str"
                     => xlsx'.rows[i][c] = Blank
         /\ \A c \in NumericCols \cap DOMAIN last'.payload :
               last'.payload[c] = Num(0) => CellOf(xlsx', last'.key, c) = Num(0)]_vars

\* An upsert wrote a zero amount over an amount, in a workbook whose text
\* deposit was emptied and whose rate of three decimals was rounded.
C15_Witness ==
    /\ last.op = "upsert"
    /\ last.payload["THB Withdrawal"] = Num(0)
    /\ last.before["THB Withdrawal"] = Num(2680)
    /\ CellOf(xlsx, last.key, "THB Withdrawal") = Num(0)
    /\ xlsx.rows[1]["THB Deposit"] = Blank
    /\ xlsx.rows[1]["FX rate"] = Num(33460)
    /\ xlsx.rows[1]["Source"] = Str("Manual")

\* The rows of workbook x that an upsert for filename f does not address.
OtherRows(x, f) == DOMAIN x.rows \ RowsOf(x, f)

FilenamesIn(x) ==
    {x.rows[i]["Filename"] : i \in {j \in DOMAIN x.rows :
        "Filename" \in Range(x.columns) /\ NonBlank(x.rows[j]["Filename"])}}

\* C17: no step removes a row: every filename that has a row before an
\* upsert has one after it, and the workbook holds at least as many rows.
C17_RowsNeverDeleted ==
    [][/\ FilenamesIn(xlsx) \subseteq FilenamesIn(xlsx')
       /\ Len(xlsx'.rows) >= Len(xlsx.rows)]_vars

\* The legacy row and a row for every filename are in the workbook after an
\* upsert that found the row of its filename.
C17_Witness ==
    /\ last.op = "upsert"
    /\ last.branch = "existing"
    /\ FilenamesIn(xlsx) = {Str(f) : f \in Filenames}
    /\ Len(xlsx.rows) = NumFiles + 1
    /\ xlsx.rows[1]["Date"] = Str("12/31/2024")

SourceLabel == Str("Bangkok Bank Receipt")

\* The cell of column h in the row appended for filename f, as the claim has
\* it: the payload's value if it has one, else the default, else empty.
ClaimedNewCell(f, payload, h) ==
    IF h \in DOMAIN payload /\ NonBlank(payload[h]) THEN payload[h]
    ELSE IF h = "Filename" THEN Str(f)
    ELSE IF h = "Source" THEN SourceLabel
    ELSE Blank

\* C18 (as claimed): the row appended for a filename without a row is empty
\* but for the filename, the source label and the payload's values.
C18_NewRowAsClaimed ==
    [][(last'.op = "upsert" /\ last'.branch = "new") =>
         \A h \in HeaderSet :
            CellOf(xlsx', last'.key, h) = ClaimedNewCell(last'.key, last'.payload, h)]_vars

\* C18 (amended): the row appended holds the filename, the source label, the
\* link text "Open" in "Open File", the payload's values as stored (finalized
\* in the numeric columns) with precedence over the defaults, and is empty
\* in every other schema column; it is the last row.
C18_NewRow ==
    [][(last'.op = "upsert" /\ last'.branch = "new") =>
         /\ RowsOf(xlsx', last'.key) = {Len(xlsx'.rows)}
         /\ Len(xlsx'.rows) = Len(xlsx.rows) + 1
         /\ \A h \in HeaderSet :
               CellOf(xlsx', last'.key, h) =
                  IF h = "Open File" THEN Str("Open")
                  ELSE Stored(h, ClaimedNewCell(last'.key, last'.payload, h))]_vars

\* A row was appended for an update record that brought its own source, and
\* one for a record with a zero amount, which holds the constant label.
C18_Witness ==
    /\ last.op = "upsert"
    /\ last.branch = "new"
    /\ "Source" \in DOMAIN last.payload
    /\ CellOf(xlsx, last.key, "Source") = Str("K PLUS")
    /\ CellOf(xlsx, last.key, "Filename") = Str(last.key)
    /\ CellOf(xlsx, last.key, "THB Withdrawal") = Num(2680)
    /\ \E f \in Filenames \ {last.key} :
          /\ RowsOf(xlsx, f) # {}
          /\ CellOf(xlsx, f, "Source") = SourceLabel
          /\ CellOf(xlsx, f, "THB Withdrawal") = Num(0)
          /\ CellOf(xlsx, f, "Date") = Blank

(***************************************************************************)
(* SpecTiers: the amount extractor main() loads, on receipts with a label  *)
(***************************************************************************)
MaxTierLines == 3

TierLines ==
    { << "A", "m", "o", "u", "n", "t" >>,
      << "7", "5", "9", ".", "0", "0", " ", "T", "H", "B" >>,
      << "2", ",", "5", "0", "0", ".", "0", "0", " ", "T", "H", "B" >>,
      << "F", "r", "o", "m" >>,
      << "F", "e", "e", " ", "0", ".", "0", "0", " ", "T", "H", "B" >> }

\* _ocr_image: the lines of the transcript, and the text they were split from
InitTiers ==
    /\ xlsx = NoFile
    /\ last = NoOp
    /\ imgPaths = << >>
    /\ pos = 0
    /\ ext = NoModules
    /\ outVal = NoAmount
    /\ stage = "input"
    /\ inLines \in SeqsUpTo(TierLines, MaxTierLines)
    /\ inText = Join(inLines, << "\n" >>)

SpecTiers == InitTiers /\ [][NextAmount]_vars

\* What a tier's formatted amount reads as in the record main() gets.
AsAmount(amount) ==
    IF amount = << >> THEN NoAmount ELSE Amount(Cents(RemoveCommas(amount)))

\* C19 (as claimed): the label-anchored tier comes first: when it yields a
\* valid token, that token is the extractor's result, also when a larger
\* valid amount stands elsewhere in the transcript.
C19_LabelAnchoredFirst ==
    (stage = "done" /\ FindAmountNearAmountLabel(inLines) # << >>)
        => outVal = AsAmount(FindAmountNearAmountLabel(inLines))

(***************************************************************************)
(* SpecFallback: date_extractor.py on receipts with transaction references *)
(***************************************************************************)
\* A reference line, with the date and time its first 12 digits stand for.
Reference(line, date, time) == [line |-> line, date |-> date, time |-> time]

FirstReference ==
    Reference(ReferenceLine, << "0", "3", "/", "2", "9", "/", "2", "0", "2", "5" >>,
              << "1", "8", ":", "5", "5" >>)

SecondReference ==
    Reference(<< "R", "e", "f", " ", "2", "0", "2", "4", "1", "2", "3", "1", "2", "3", "5", "9", "5", "9" >>,
              << "1", "2", "/", "3", "1", "/", "2", "0", "2", "4" >>,
              << "2", "3", ":", "5", "9" >>)

ReferenceSeqs ==
    { << >>, << FirstReference >>, << FirstReference, SecondReference >>,
      << SecondReference, FirstReference >> }

\* The header of a receipt: no date line, a date without a time, or both.
HeaderKinds == {"none", "date", "full"}

DateOnlyLine(day, month, year) == day \o << " " >> \o month \o << " " >> \o year

HeaderOf(kind, day, hour) ==
    CASE kind = "none" -> << << "B", "a", "n", "g", "k", "o", "k", " ", "B", "a", "n", "k" >> >>
      [] kind = "date" -> << DateOnlyLine(day, MonthTitles[1], << "2", "5" >>) >>
      [] kind = "full" -> << DateLine(day, MonthTitles[1], << "2", "5" >>, << ", " >>,
                                      hour, << "2", "4" >>) >>

LinesOf(refs) == [i \in DOMAIN refs |-> refs[i].line]

InitFallback ==
    /\ xlsx = NoFile
    /\ imgPaths = << >>
    /\ pos = 0
    /\ ext = NoModules
    /\ outVal = [date |-> << >>, time |-> << >>]
    /\ stage = "input"
    /\ \E kind \in HeaderKinds, day \in DayTexts, hour \in HourTexts,
          refs \in ReferenceSeqs, refsFirst \in BOOLEAN :
            /\ inLines = IF refsFirst THEN LinesOf(refs) \o HeaderOf(kind, day, hour)
                         ELSE HeaderOf(kind, day, hour) \o LinesOf(refs)
            /\ inText = Join(inLines, << "\n" >>)
            /\ last = [op |-> "receipt", header |-> kind,
                       day |-> DigitsValue(day), hour |-> DigitsValue(hour),
                       refs |-> refs]

SpecFallback == InitFallback /\ [][NextDate]_vars

\* The field of the first reference token of the receipt, empty without one.
FromReference(refs, field) == IF refs = << >> THEN << >> ELSE refs[1][field]

\* C20: a date and a time that stand on the date line are returned as they
\* are, whatever the references say; a field the date line does not give is
\* that of the first reference token, and empty if there is no token.
C20_ReferenceFillsBlanksOnly ==
    (stage = "done" /\ last.op = "receipt") =>
        /\ outVal.date = IF last.header = "none"
                         THEN FromReference(last.refs, "date")
                         ELSE FmtDate(last.day, 1, 25)
        /\ outVal.time = IF last.header = "full"
                         THEN FmtTime(last.hour, 24)
                         ELSE FromReference(last.refs, "time")

\* The date line gave the date but no time, and the time is that of the
\* first of two reference tokens, which stand before the date line.
C20_Witness ==
    /\ stage = "done"
    /\ last.op = "receipt"
    /\ last.header = "date"
    /\ Len(last.refs) = 2
    /\ inLines[1] = last.refs[1].line
    /\ outVal.date = FmtDate(last.day, 1, 25)
    /\ outVal.time = last.refs[1].time
    /\ outVal.date # last.refs[1].date

(***************************************************************************)
(* SpecClamp: date_extractor.py on times at and beyond the clock's range   *)
(***************************************************************************)
\* Hours and minutes as TIME_RE admits them on a date line (a first character
\* of [0-2OIl] and of [0-5OIl]), and as the 12 digits of a reference hold them.
LineHourTexts == { << "0", "0" >>, << "2", "3" >>, << "2", "4" >>, << "2", "9" >>, << "l", "7" >> }

LineMinuteTexts == { << "0", "0" >>, << "5", "9" >>, << "O", "5" >> }

StampHourTexts == { << "1", "8" >>, << "2", "4" >>, << "9", "9" >> }

StampMinuteTexts == { << "5", "9" >>, << "6", "0" >>, << "9", "9" >> }

\* A transaction reference of 29 March 2025 with hour hh and minute mm.
StampLine(hh, mm) ==
    << "R", "e", "f", " ", "2", "0", "2", "5", "0", "3", "2", "9" >> \o hh \o mm \o << "0", "1" >>

\* A time as the receipt shows it: none, or its hour and minute.
NoTime == [shown |-> FALSE, hour |-> 0, minute |-> 0]

TimeShown(h, m) ==
    [shown |-> TRUE, hour |-> DigitsValue(FixOcrDigits(h)),
     minute |-> DigitsValue(FixOcrDigits(m))]

InitClamp ==
    /\ xlsx = NoFile
    /\ imgPaths = << >>
    /\ pos = 0
    /\ ext = NoModules
    /\ outVal = [date |-> << >>, time |-> << >>]
    /\ stage = "input"
    /\ \E header \in {<< >>} \cup {<<h, m>> : h \in LineHourTexts, m \in LineMinuteTexts},
          stamp \in {<< >>} \cup {<<h, m>> : h \in StampHourTexts, m \in StampMinuteTexts} :
            /\ inLines =
                 (IF header = << >> THEN << >>
                  ELSE << DateLine(<< "0", "7" >>, MonthTitles[1], << "2", "5" >>,
                                   << "," >>, header[1], header[2]) >>)
                 \o (IF stamp = << >> THEN << >>
                     ELSE << StampLine(stamp[1], stamp[2]) >>)
            /\ inText = Join(inLines, << "\n" >>)
            /\ last = [op |-> "clock",
                       line |-> IF header = << >> THEN NoTime
                                ELSE TimeShown(header[1], header[2]),
                       stamp |-> IF stamp = << >> THEN NoTime
                                 ELSE TimeShown(stamp[1], stamp[2])]

SpecClamp == InitClamp /\ [][NextDate]_vars

\* HH:MM of hour h and minute m.
Clock(h, m) == Fmt02(h) \o << ":" >> \o Fmt02(m)

ClockTimes == {Clock(h, m) : h \in 0..23, m \in 0..59}

\* The time the receipt shows, on its date line or else in its reference.
ShownTime(l) == IF l.line.shown THEN l.line ELSE l.stamp

\* C21: a time that is returned is HH:MM with the hour in 0..23 and the
\* minute in 0..59: it is the time the receipt shows, an hour above 23 read
\* as 23 and a minute above 59 as 59.
C21_TimeClamped ==
    (stage = "done" /\ last.op = "clock") =>
        /\ outVal.time # << >> => outVal.time \in ClockTimes
        /\ ShownTime(last).shown =>
              outVal.time = Clock(Min({ShownTime(last).hour, 23}),
                                  Min({ShownTime(last).minute, 59}))

\* An hour of 29 on the date line was returned as 23, beside a reference
\* that shows another time.
C21_Witness ==
    /\ stage = "done"
    /\ last.op = "clock"
    /\ last.line.shown /\ last.line.hour = 29 /\ last.line.minute = 5
    /\ last.stamp.shown
    /\ outVal.time = Clock(23, 5)

(***************************************************************************)
(* SpecNote: scripts/image-scripts/note_extractor.py                       *)
(***************************************************************************)
\* STOP_WORDS
StopWords ==
    { << "b", "a", "n", "k", " ", "r", "e", "f", "e", "r", "e", "n", "c", "e" >>,
      << "t", "r", "a", "n", "s", "a", "c", "t", "i", "o", "n", " ", "r", "e", "f", "e", "r", "e", "n", "c", "e" >>,
      << "s", "c", "a", "n", " ", "t", "o", " ", "v", "e", "r", "i", "f", "y" >>,
      << "f", "e", "e" >>,
      << "m", "e", "r", "c", "h", "a", "n", "t", " ", "i", "d" >>,
      << "r", "e", "f", " ", "n", "o" >> }

NoteWord == << "n", "o", "t", "e" >>

\* [:\-U+2013]: the en dash is written by its code point
NoteSeparators == {":", "-", "U+2013"}

\* [^\n]+ from p: the position after the run
RECURSIVE LineEnd(_, _)
LineEnd(s, p) == IF p \in DOMAIN s /\ s[p] # "\n" THEN LineEnd(s, p + 1) ELSE p

\* The ways NOTE_BLOCK_RE matches with (?i)note at i: <<w1, k, w2>>, the
\* lengths of \s*, of [:\-U+2013]? and of \s*, with a character that is no
\* newline after them.
NoteBlockAt(s, i) ==
    IF ~StartsAt(LowerText(s), i, NoteWord) THEN {}
    ELSE UNION { UNION { { <<w1, k, w2>> :
                             w2 \in {w \in 0..SpaceRun(s, i + 4 + w1 + k) :
                                       /\ i + 4 + w1 + k + w \in DOMAIN s
                                       /\ s[i + 4 + w1 + k + w] # "\n"} } :
                         k \in {n \in {0, 1} :
                                  n = 1 => /\ i + 4 + w1 \in DOMAIN s
                                           /\ s[i + 4 + w1] \in NoteSeparators} } :
                 w1 \in 0..SpaceRun(s, i + 4) }

\* The match the backtracking finds first: each quantifier is greedy, the
\* earlier one first.
Greediest(ways, len) ==
    CHOOSE c \in ways : \A o \in ways :
        (2 * o[1] + o[2]) * (len + 1) + o[3] <= (2 * c[1] + c[2]) * (len + 1) + c[3]

\* group(1) of the match at i by way c
NoteGroup(s, i, c) ==
    SubSeq(s, i + 4 + c[1] + c[2] + c[3], LineEnd(s, i + 4 + c[1] + c[2] + c[3]) - 1)

\* NOTE_BLOCK_RE.search(text): the leftmost match
NoteBlockLeftmost(s, at) ==
    IF at = {} THEN [ok |-> FALSE, at |-> 0, group |-> << >>]
    ELSE [ok |-> TRUE, at |-> Min(at),
          group |-> NoteGroup(s, Min(at), Greediest(NoteBlockAt(s, Min(at)), Len(s)))]

NoteBlockSearch(s) == NoteBlockLeftmost(s, {i \in DOMAIN s : NoteBlockAt(s, i) # {}})

\* text.splitlines(), for the line break "\n"
RECURSIVE SplitLines(_)
SplitLines(s) ==
    IF s = << >> THEN << >>
    ELSE << SubSeq(s, 1, LineEnd(s, 1) - 1) >>
            \o SplitLines(SubSeq(s, LineEnd(s, 1) + 1, Len(s)))

\* [ln.strip() for ln in text.splitlines() if ln.strip()]
StrippedLines(s) ==
    LET split == SplitLines(s)
        stripped == [i \in DOMAIN split |-> Strip(split[i])]
    IN  SelectSeq(stripped, LAMBDA ln : ln # << >>)

\* any(s in low for s in STOP_WORDS)
HasStopWord(line) == \E w \in StopWords : Contains(LowerText(line), w)

\* The fallback of extract_note: for every line with "note", in order, the
\* first of the next 2 lines that holds no stop word
NoteAfterLabel(lines) ==
    LET hits == {<<i, j>> \in (DOMAIN lines) \X (DOMAIN lines) :
                    /\ Contains(LowerText(lines[i]), NoteWord)
                    /\ j \in (i + 1)..(i + 2)
                    /\ ~HasStopWord(lines[j])}
        first == CHOOSE h \in hits : \A o \in hits :
                    h[1] < o[1] \/ (h[1] = o[1] /\ h[2] <= o[2])
    IN  IF hits = {} THEN << >> ELSE lines[first[2]]

NoteOr(m, text) == IF m.ok THEN Strip(m.group) ELSE NoteAfterLabel(StrippedLines(text))

\* extract_note(text)
ExtractNote(text) == NoteOr(NoteBlockSearch(text), text)

MaxNoteLines == 3

NoteLines ==
    { << "N", "o", "t", "e" >>,
      << "N", "o", "t", "e", ":", " ", "l", "u", "n", "c", "h" >>,
      << "F", "e", "e", " ", "0", ".", "0", "0" >>,
      << "r", "e", "n", "t" >>,
      << "R", "e", "f", " ", "N", "o", " ", "4", "2" >>,
      << " " >> }

InitNote ==
    /\ xlsx = NoFile
    /\ last = NoOp
    /\ imgPaths = << >>
    /\ pos = 0
    /\ ext = NoModules
    /\ outVal = << >>
    /\ stage = "input"
    /\ inLines \in SeqsUpTo(NoteLines, MaxNoteLines)
    /\ inText = Join(inLines, << "\n" >>)

\* extract(image_path, text, lines)["note"]
RunExtractNote ==
    /\ stage = "input"
    /\ outVal' = ExtractNote(inText)
    /\ stage' = "done"
    /\ UNCHANGED <<xlsx, last, imgPaths, pos, inText, inLines, ext>>

NextNote == RunExtractNote

SpecNote == InitNote /\ [][NextNote]_vars


\* What stands after the label at i on the label's own line, without the
\* optional colon or dash and the white space around it.
AfterSeparator(rest) ==
    IF rest # << >> /\ Head(rest) \in NoteSeparators THEN Strip(Tail(rest)) ELSE rest

SameLineContent(s, i) == AfterSeparator(Strip(SubSeq(s, i + 4, LineEnd(s, i + 4) - 1)))

\* C22 (as claimed): when the inline pattern matches, the note is what
\* follows "Note" and an optional colon or dash on the line of "Note"; a
\* label alone on its line gives no inline match.
C22_InlineSameLine ==
    (stage = "done" /\ NoteBlockSearch(inText).ok) =>
        /\ SameLineContent(inText, NoteBlockSearch(inText).at) # << >>
        /\ outVal = SameLineContent(inText, NoteBlockSearch(inText).at)

\* The first line that holds "note", among the non-empty lines; 0 without one
FirstNoteLine(lines) ==
    IF \E i \in DOMAIN lines : Contains(LowerText(lines[i]), NoteWord)
    THEN Min({i \in DOMAIN lines : Contains(LowerText(lines[i]), NoteWord)})
    ELSE 0

\* The label stands alone on line i: no note content follows it there.
BareLabel(lines, i) ==
    /\ i \in DOMAIN lines
    /\ StartsAt(LowerText(lines[i]), 1, NoteWord)
    /\ SameLineContent(lines[i], 1) = << >>

Following(lines, i) == (i + 1)..(i + 2) \cap DOMAIN lines

\* C23 (as claimed): when the first line with "note" holds the label alone,
\* the note is the first of the next 2 non-empty lines without a stop word,
\* and never one of them that holds a stop word.
C23_NextLineWithoutStopWord ==
    (stage = "done"
       /\ BareLabel(StrippedLines(inText), FirstNoteLine(StrippedLines(inText)))) =>
        \A j \in Following(StrippedLines(inText), FirstNoteLine(StrippedLines(inText))) :
            IF HasStopWord(StrippedLines(inText)[j])
            THEN outVal # StrippedLines(inText)[j]
            ELSE (\A k \in Following(StrippedLines(inText), FirstNoteLine(StrippedLines(inText))) :
                     k < j => HasStopWord(StrippedLines(inText)[k]))
                 => outVal = StrippedLines(inText)[j]

(***************************************************************************)
(* SpecKeys: main() on amount results that name their value either way     *)
(***************************************************************************)
\* Results of an amount extractor with the value under 'thb_withdrawal', under
\* 'withdrawal', under both keys, and under neither.
KeyAmounts == { Num(759000), Num(2500000) }

KeyAnswers ==
    {Dict(Blank, Blank)}
        \cup {Dict(v, Blank) : v \in KeyAmounts}
        \cup {Dict(Blank, v) : v \in KeyAmounts}
        \cup {Dict(v, v) : v \in KeyAmounts}

InitKeys ==
    /\ xlsx = NoFile
    /\ last = NoOp
    /\ imgPaths \in {SubSeq(AllFilenames, 1, n) : n \in 0..NumFiles}
    /\ pos = 0
    /\ inText = << >>
    /\ inLines = << >>
    /\ outVal = Blank
    /\ stage = "loop"
    /\ ext = Deployed

NextKeys ==
    \/ \E ocr \in OcrResults, ra \in KeyAnswers :
          ProcessImage(ocr, Raises, ra, Raises, Raises)
    \/ Summary

SpecKeys == InitKeys /\ [][NextKeys]_vars

\* The value of an amount result that carries it under one key only, Blank
\* for a result with both keys or none.
UnderOneKey(r) ==
    IF r.kind = "dict" /\ NonBlank(r.a) /\ ~NonBlank(r.b) THEN r.a
    ELSE IF r.kind = "dict" /\ ~NonBlank(r.a) /\ NonBlank(r.b) THEN r.b
    ELSE Blank

\* C24 (as claimed): an amount that the extractor's result carries under
\* 'withdrawal' only or under 'thb_withdrawal' only stands in the field
\* 'THB Withdrawal' of the update record.
C24_EitherKey ==
    (last.op = "process" /\ NonBlank(UnderOneKey(last.resp.amount)))
        => last.payload["THB Withdrawal"] = UnderOneKey(last.resp.amount)

(***************************************************************************)
(* SpecDelivery: main() with scripts/image-scripts/amount_extractor.py as  *)
(* the amount extractor, from the transcript to the ledger row             *)
(***************************************************************************)
\* str of a text of the model
RECURSIVE StrOf(_)
StrOf(s) == IF s = << >> THEN "" ELSE s[1] \o StrOf(Tail(s))

\* out_amt as the extractor returns it: its formatted amount under both keys
AmountAnswer(w) == Dict(Str(StrOf(w.thb_withdrawal)), Str(StrOf(w.withdrawal)))

\* The transcripts of the images: up to MaxDeliveryLines of these lines,
\* which hold the amounts 759.00 and 2,500.00 and the fee 0.00.
MaxDeliveryLines == 2

DeliveryLines ==
    { << "A", "m", "o", "u", "n", "t" >>,
      << "2", ",", "5", "0", "0", ".", "0", "0", " ", "T", "H", "B" >>,
      << "7", "5", "9", ".", "0", "0", "T", "H", "B" >>,
      << "F", "e", "e", " ", "0", ".", "0", "0", " ", "T", "H", "B" >> }

InitDelivery ==
    /\ xlsx = NoFile
    /\ last = NoOp
    /\ imgPaths \in {SubSeq(AllFilenames, 1, n) : n \in 0..NumFiles}
    /\ pos = 0
    /\ inText = << >>
    /\ inLines = << >>
    /\ outVal = Blank
    /\ stage = "loop"
    /\ ext = Deployed

\* One image of the loop: the OCR transcript goes to the extractor, and what
\* the extractor returns goes to lines 291-301 of main().
DeliverImage(lines) ==
    ProcessImage(<< Join(lines, << "\n" >>), lines >>, Raises,
                 AmountAnswer(ExtractWithdrawal(Join(lines, << "\n" >>), lines)),
                 Raises, Raises)

NextDelivery ==
    \/ \E lines \in SeqsUpTo(DeliveryLines, MaxDeliveryLines) : DeliverImage(lines)
    \/ Summary

SpecDelivery == InitDelivery /\ [][NextDelivery]_vars

\* The withdrawal the extractor returns for the image processed last
Extracted == ExtractWithdrawal(inText, inLines).thb_withdrawal

\* Its value, in thousandths
ExtractedValue == 10 * Cents(RemoveCommas(Extracted))

\* C25 (as claimed): after the upsert of an image for which the amount
\* extractor returns a withdrawal, the ledger row of the image holds that
\* amount as a number in "THB Withdrawal".
C25_AmountDelivered ==
    (last.op = "process" /\ stage = "loop" /\ Extracted # << >>)
        => CellOf(xlsx, last.key, "THB Withdrawal") = Num(ExtractedValue)

\* The amounts that do arrive: 759.00 is delivered.
C25_PlainDelivered ==
    /\ last.op = "process"
    /\ Extracted = << "7", "5", "9", ".", "0", "0" >>
    /\ CellOf(xlsx, last.key, "THB Withdrawal") = Num(759000)

====
